---- MODULE Spec2Model ----
(***************************************************************************)
(* Model of src/app.py: a Flask backend with four POST routes              *)
(* (/auth/register, /auth/login, /generate-fix, /apply-fix) over one       *)
(* SQLite table `users` and one outbound call to a text-generation API.    *)
(*                                                                         *)
(* Every HTTP request is a process with its own application context `g`.   *)
(* Requests run concurrently (threaded server); the only shared state is   *)
(* the database file and the module-level configuration.                   *)
(***************************************************************************)
EXTENDS Integers, Sequences, FiniteSets, TLC

\* ------------------------------------------------------------------ bounds
MaxRequests == 3        \* number of HTTP requests the server receives
MaxFixRequests == 2     \* number of them when only the two fix routes are used
MaxTextLen == 3         \* longest candidate text the upstream API returns

Requests == 1..MaxRequests
FixRequests == 1..MaxFixRequests

\* ------------------------------------------------------------- JSON values
None == "<None>"        \* Python's None: JSON null, or dict.get of an absent key
Absent == "<absent>"    \* a key the mapping does not have
Empty == ""             \* the empty string
NonText == "<list>"     \* a truthy JSON value sqlite3 cannot bind: a list, an object
Number == "<number 7>"  \* a truthy JSON value that is no text and that sqlite3 binds: the number 7
NumberText == "7"       \* the text of that number
Truthy(v) == v \notin {None, Empty}
\* a value that is a str (or None): it has .encode, and it is stored as it is
IsText(v) == v \notin {NonText, Number}
\* a value sqlite3 can bind as a statement parameter
CanBind(v) == v # NonText
\* a TEXT column, and a comparison with one, turns a number into its text
text_affinity(v) == IF v = Number THEN NumberText ELSE v

FirstNames == {"Ann"}
LastNames == {"Lee"}
Emails == {"a@x.io", "b@x.io"}
Passwords == {"pw1", "pw2"}
\* salts: that of the row an earlier run stored, and the one drawn in this run
Salts == {1, 2}
SaltSample == {2}

\* characters of an upstream candidate text: the double quote, a whitespace
\* character, and any other character
QUOTE == "dquote"
SPACE == "space"
LETTER == "letter"
Chars == {QUOTE, SPACE, LETTER}
Texts == UNION {[1..n -> Chars] : n \in 0..MaxTextLen}

SupportedIssueIds == {"no-h1", "title-length", "image-alt-text", "meta-description"}
IssueIds == SupportedIssueIds \cup {None, Empty, "broken-links"}

\* request.json of the four routes.  object = FALSE is a JSON body that is
\* not an object (a list, a string, a number, null): it has no .get
NonObject(route) == [route |-> route, object |-> FALSE]

\* all four fields present
RegisterFull ==
  {[route |-> "register", object |-> TRUE, firstName |-> f, lastName |-> l,
    email |-> e, password |-> p] :
      f \in FirstNames, l \in LastNames, e \in Emails, p \in Passwords}

\* one of the four fields absent (None) or empty
RegisterBase ==
  [route |-> "register", object |-> TRUE, firstName |-> "Ann", lastName |-> "Lee",
   email |-> "a@x.io", password |-> "pw1"]
RegisterPartial ==
  {[RegisterBase EXCEPT ![k] = None] : k \in {"firstName", "lastName", "email", "password"}}
  \cup {[RegisterBase EXCEPT !.email = Empty]}

\* one of the four fields a list or an object
RegisterNonText ==
  {[RegisterBase EXCEPT ![k] = NonText] : k \in {"firstName", "lastName", "email", "password"}}

\* the first name or the email a number, and the email the text of that number
RegisterNumber ==
  {[RegisterBase EXCEPT ![k] = Number] : k \in {"firstName", "email"}}
  \cup {[RegisterBase EXCEPT !.email = NumberText]}

RegisterBodies ==
  RegisterFull \cup RegisterPartial \cup RegisterNonText \cup RegisterNumber
    \cup {NonObject("register")}
\* a sample of them: one name and one password, with and without an email
RegisterSample ==
  {b \in RegisterBodies :
      b.object => /\ b.firstName = "Ann"
                  /\ b.lastName = "Lee"
                  /\ b.password \in {"pw1", NonText}
                  /\ b.email # NumberText}

LoginBodies ==
  {[route |-> "login", object |-> TRUE, email |-> e, password |-> p] :
      e \in Emails \cup {None, NonText}, p \in Passwords \cup {Empty, NonText}}
  \cup {[route |-> "login", object |-> TRUE, email |-> e, password |-> "pw1"] :
          e \in {Number, NumberText}}
  \cup {NonObject("login")}

LoginSample ==
  {b \in LoginBodies :
      b.object => \/ b.email = "a@x.io" /\ b.password # Empty
                  \/ b.email \notin {"a@x.io", NumberText} /\ b.password = "pw1"}

\* the `context` member: a mapping (each key absent, null or a text) or some
\* other JSON value.  An absent `context` is the empty mapping (the default).
EmptyContext == [mapping |-> TRUE, topic |-> Absent, title |-> Absent, src |-> Absent]
NullContext == [mapping |-> TRUE, topic |-> None, title |-> None, src |-> None]
FullContext == [mapping |-> TRUE, topic |-> "coffee shop", title |-> "My Title", src |-> "logo.png"]
NonMappingContext == [mapping |-> FALSE, topic |-> Absent, title |-> Absent, src |-> Absent]
Contexts == {EmptyContext, NullContext, FullContext, NonMappingContext}

GenerateFixBodies ==
  {[route |-> "generate-fix", object |-> TRUE, issueId |-> i, context |-> c] :
      i \in IssueIds, c \in Contexts}
  \cup {NonObject("generate-fix")}

\* a sample of them: every body that goes no further than the issue_id checks,
\* and the supported ids with one context each
GenerateFixSample ==
  {b \in GenerateFixBodies :
      (b.object /\ b.issueId \in SupportedIssueIds) =>
         \/ b.context = NonMappingContext
         \/ b.context = NullContext /\ b.issueId = "title-length"
         \/ b.context = FullContext /\ b.issueId = "image-alt-text"}

ApplyFixBodies ==
  {[route |-> "apply-fix", object |-> TRUE, issueId |-> i, suggestion |-> s] :
      i \in {"title-length", None}, s \in {"New Title", Empty}}
  \cup {NonObject("apply-fix")}
ApplyFixSample ==
  {b \in ApplyFixBodies : b.object => b.issueId # None \/ b.suggestion # Empty}

\* what requests.post / raise_for_status / response.json can produce
\*   neterr : no HTTP response (connection error, timeout)
\*   http   : a non-2xx status; the error body is JSON or plain text
\*   ok     : a 2xx status; json tells whether the body is JSON, shape how far
\*            result[...] can be followed
OkShapes == {"text", "no-candidates", "empty-candidates", "null-candidates",
             "null-content", "null-text"}
\* what response.json() raises for a body that is no JSON: the installed
\* requests decides (from 2.27 its JSONDecodeError, a RequestException; before,
\* a plain ValueError); the source pins no version
JsonErrors == {"RequestException", "ValueError"}
Replies ==
  {[kind |-> "neterr", status |-> 0, json |-> FALSE, shape |-> "none", text |-> <<>>]}
  \cup {[kind |-> "http", status |-> s, json |-> j, shape |-> "none", text |-> <<>>] :
          s \in {429, 503}, j \in BOOLEAN}
  \cup {[kind |-> "ok", status |-> 200, json |-> TRUE, shape |-> sh, text |-> <<>>] :
          sh \in OkShapes \ {"text"}}
  \cup {[kind |-> "ok", status |-> 200, json |-> TRUE, shape |-> "text", text |-> t] :
          t \in Texts}
  \cup {[kind |-> "ok", status |-> 200, json |-> FALSE, shape |-> e, text |-> <<>>] :
          e \in JsonErrors}

\* a sample of them: one answer of each class
ReplySample ==
  {rep \in Replies :
     \/ rep.kind = "http" /\ rep.status = 503 /\ rep.json
     \/ rep.kind = "ok" /\ rep.shape \in {"no-candidates", "null-candidates", "RequestException"}
     \/ rep.kind = "ok" /\ rep.shape = "text" /\ rep.text = <<QUOTE, LETTER, QUOTE>>}

\* ------------------------------------------------------------------- state
VARIABLES
  apiKey,     \* GEMINI_API_KEY is set (module level, read once at start-up)
  users,      \* committed rows of table users, in commit order
  seq,        \* committed sqlite_sequence value of table users
  writer,     \* the requests whose connection holds the database write lock
  pc,         \* position of each request in its handler
  req,        \* request.json of each request
  resp,       \* the response each request ends in
  conn,       \* g._database of each request's context is an open connection
  pwhash,     \* register's local password_hash
  tx,         \* the uncommitted row of each connection's open transaction
  call,       \* the payload posted to the upstream API by each request
  reply,      \* what the upstream call came back with
  opened,     \* history: the request called get_db
  ledger      \* history: the 201 answers of register, in commit order

vars == <<apiKey, users, seq, writer, pc, req, resp, conn, pwhash, tx, call, reply,
          opened, ledger>>

NoReq == [route |-> "none", object |-> FALSE]
NoResp == [status |-> 0, raised |-> "none", body |-> [pending |-> TRUE]]
NoHash == [salt |-> 0, digest |-> 0]
NoRow == [user_id |-> 0, first_name |-> None, last_name |-> None, email |-> None,
          password_hash |-> NoHash]
NoCall == [template |-> "none", subject |-> None]
NoReply == [kind |-> "none", status |-> 0, json |-> FALSE, shape |-> "none", text |-> <<>>]

\* --------------------------------------------------------------- responses
\* jsonify(body), status
Json(status, body) == [status |-> status, raised |-> "none", body |-> body]
\* an exception leaves the view function: the framework answers with its own
\* 500 page, which is no JSON document
Unhandled(exception) ==
  [status |-> 500, raised |-> exception, body |-> [html |-> "Internal Server Error"]]

\* --------------------------------------------------------- password hashing
PasswordCode(password) == IF password = "pw1" THEN 0 ELSE 1
\* the digest of a salted password: distinct (salt, password) pairs give
\* distinct digests
Digest(salt, password) == salt * Cardinality(Passwords) + PasswordCode(password)
generate_password_hash(password, salt) ==
  [salt |-> salt, digest |-> Digest(salt, password)]
check_password_hash(stored, password) ==
  Digest(stored.salt, password) = stored.digest

\* ------------------------------------------------------------------- store
EmailRows(email) == {i \in 1..Len(users) : users[i].email = text_affinity(email)}
\* SELECT * FROM users WHERE email = ? ... fetchone()
fetchone(email) ==
  IF EmailRows(email) = {} THEN NoRow
  ELSE users[CHOOSE i \in EmailRows(email) : \A j \in EmailRows(email) : i <= j]
\* user_id INTEGER PRIMARY KEY AUTOINCREMENT
lastrowid(sequence) == sequence + 1
\* email TEXT UNIQUE NOT NULL
UniqueViolation(email) == EmailRows(email) # {}

\* --------------------------------------------------- suggestion text (str)
RECURSIVE lstrip(_)
lstrip(s) == IF s # <<>> /\ Head(s) = SPACE THEN lstrip(Tail(s)) ELSE s
RECURSIVE rstrip(_)
rstrip(s) ==
  IF s # <<>> /\ s[Len(s)] = SPACE THEN rstrip(SubSeq(s, 1, Len(s) - 1)) ELSE s
strip(s) == rstrip(lstrip(s))
IsNotQuote(c) == c # QUOTE
\* .replace('"', '')
replace_quotes(s) == SelectSeq(s, IsNotQuote)
\* result[...]['text'].strip().replace('"', '')
suggestion_text(text) == replace_quotes(strip(text))

\* ----------------------------------------------------------------- prompts
\* context.get(key, default): the default for an absent key only; a key that
\* is there with null gives None
context_get(context, key, default) ==
  IF context[key] = Absent THEN default ELSE context[key]
\* the f-string of each supported issue_id: its template and the value put in
build_prompt(issue_id, context) ==
  CASE issue_id = "no-h1" ->
         [template |-> "h1", subject |-> context_get(context, "topic", "a generic web page")]
    [] issue_id = "title-length" ->
         [template |-> "title",
          subject |-> context_get(context, "title", "A very long, unoptimized title.")]
    [] issue_id = "image-alt-text" ->
         [template |-> "alt", subject |-> context_get(context, "src", "a corporate logo")]
    [] issue_id = "meta-description" ->
         [template |-> "meta",
          subject |-> context_get(context, "topic", "company services and features")]
    [] OTHER -> [template |-> "", subject |-> None]      \* prompt = ""

\* -------------------------------------------------------------------- init
\* users.db outlives the process (CREATE TABLE IF NOT EXISTS): at start-up the
\* table is empty or holds the rows of earlier runs, here one registration
EarlierRow ==
  [user_id |-> 1, first_name |-> "Ann", last_name |-> "Lee", email |-> "a@x.io",
   password_hash |-> generate_password_hash("pw1", 1)]
EarlierAnswer ==
  [userId |-> 1, firstName |-> "Ann", lastName |-> "Lee", email |-> "a@x.io",
   password |-> "pw1", by |-> 0]
InitialStores == {<<>>, <<EarlierRow>>}

Init ==
  /\ apiKey \in BOOLEAN
  /\ users \in InitialStores
  /\ seq = Len(users)
  /\ ledger = IF users = <<>> THEN <<>> ELSE <<EarlierAnswer>>
  /\ writer = {}
  /\ pc = [r \in Requests |-> "new"]
  /\ req = [r \in Requests |-> NoReq]
  /\ resp = [r \in Requests |-> NoResp]
  /\ conn = [r \in Requests |-> FALSE]
  /\ pwhash = [r \in Requests |-> NoHash]
  /\ tx = [r \in Requests |-> NoRow]
  /\ call = [r \in Requests |-> NoCall]
  /\ reply = [r \in Requests |-> NoReply]
  /\ opened = [r \in Requests |-> FALSE]

\* requests are numbered in the order they arrive
Arrives(r) == pc[r] = "new" /\ \A q \in Requests : q < r => pc[q] # "new"

\* the handler returns (or raises): the response is fixed, teardown is left
Respond(r, response) ==
  /\ resp' = [resp EXCEPT ![r] = response]
  /\ pc' = [pc EXCEPT ![r] = "responded"]

\* get_db(): g._database = sqlite3.connect(DATABASE)
get_db(r) ==
  /\ conn' = [conn EXCEPT ![r] = TRUE]
  /\ opened' = [opened EXCEPT ![r] = TRUE]

\* ------------------------------------------------------- POST /auth/register
\* all([first_name, last_name, email, password])
register_all(body) ==
  /\ Truthy(body.firstName)
  /\ Truthy(body.lastName)
  /\ Truthy(body.email)
  /\ Truthy(body.password)

\* lines 56-65: read the body, check the four fields, open the connection
register_validate(r, body) ==
  /\ Arrives(r)
  /\ req' = [req EXCEPT ![r] = body]
  /\ IF ~body.object
       THEN /\ Respond(r, Unhandled("AttributeError"))
            /\ UNCHANGED <<conn, opened>>
       ELSE IF ~register_all(body)
         THEN /\ Respond(r, Json(400, [error |-> "Missing required fields."]))
              /\ UNCHANGED <<conn, opened>>
         ELSE /\ get_db(r)
              /\ pc' = [pc EXCEPT ![r] = "hash"]
              /\ UNCHANGED resp
  /\ UNCHANGED <<apiKey, users, seq, writer, pwhash, tx, call, reply, ledger>>

\* line 67: password_hash = generate_password_hash(password), a fresh salt;
\* a password that is no text (NonText stands for any such value) has no
\* .encode, and the call is outside the try
register_hash(r, salt) ==
  /\ pc[r] = "hash"
  /\ IF IsText(req[r].password)
       THEN /\ pwhash' = [pwhash EXCEPT ![r] = generate_password_hash(req[r].password, salt)]
            /\ pc' = [pc EXCEPT ![r] = "insert"]
            /\ UNCHANGED resp
       ELSE /\ Respond(r, Unhandled("AttributeError"))
            /\ UNCHANGED pwhash
  /\ UNCHANGED <<apiKey, users, seq, writer, req, conn, tx, call, reply, opened, ledger>>

\* the INSERT's parameters (first_name, last_name, email, password_hash) are
\* all of a type sqlite3 binds
Bindable(body) ==
  CanBind(body.firstName) /\ CanBind(body.lastName) /\ CanBind(body.email)

\* lines 70-73 and 82-84: a parameter that is a list or an object cannot be
\* bound: db.execute raises ProgrammingError before the statement is run,
\* which the handler answers with 500
register_insert_unbindable(r) ==
  /\ pc[r] = "insert"
  /\ ~Bindable(req[r])
  /\ Respond(r, Json(500, [error |-> "Internal server error during registration."]))
  /\ pwhash' = [pwhash EXCEPT ![r] = NoHash]
  /\ UNCHANGED <<apiKey, users, seq, writer, req, conn, tx, call, reply, opened, ledger>>

\* the INSERT takes the database write lock; while another connection holds
\* it, sqlite3 waits for it, up to the connection's busy timeout (the 5 s
\* default of sqlite3.connect)
WriteLockFree == writer = {}

\* lines 70-73 and 80-81: the INSERT opens a transaction, takes the write
\* lock and either adds the row to the transaction or raises IntegrityError,
\* which the handler answers with 409 (the transaction stays open)
register_insert(r) ==
  /\ pc[r] = "insert"
  /\ Bindable(req[r])
  /\ WriteLockFree
  /\ writer' = {r}
  /\ IF UniqueViolation(req[r].email)
       THEN /\ Respond(r, Json(409, [error |-> "Email already registered."]))
            /\ UNCHANGED tx
       ELSE /\ tx' = [tx EXCEPT ![r] =
                        [user_id |-> lastrowid(seq),
                         first_name |-> text_affinity(req[r].firstName),
                         last_name |-> text_affinity(req[r].lastName),
                         email |-> text_affinity(req[r].email),
                         password_hash |-> pwhash[r]]]
            /\ pc' = [pc EXCEPT ![r] = "commit"]
            /\ UNCHANGED resp
  /\ pwhash' = [pwhash EXCEPT ![r] = NoHash]
  /\ UNCHANGED <<apiKey, users, seq, req, conn, call, reply, opened, ledger>>

\* lines 70-73 and 82-84: the write lock is still held by another connection
\* when the busy timeout ends: the INSERT raises OperationalError (database is
\* locked), which the handler answers with 500
register_insert_locked(r) ==
  /\ pc[r] = "insert"
  /\ Bindable(req[r])
  /\ ~WriteLockFree
  /\ Respond(r, Json(500, [error |-> "Internal server error during registration."]))
  /\ pwhash' = [pwhash EXCEPT ![r] = NoHash]
  /\ UNCHANGED <<apiKey, users, seq, writer, req, conn, tx, call, reply, opened, ledger>>

\* the connections with a SELECT that is stepped and not yet fetched: each
\* holds a SHARED lock on the database file
Readers == {q \in Requests : pc[q] = "fetch"}

\* the connections whose db.commit() met a reader: each holds the PENDING
\* lock, which admits no new reader, from then until its transaction ends
Pending ==
  {q \in Requests : pc[q] \in {"commit-wait", "responded"} /\ tx[q] # NoRow}

\* line 74: db.commit() needs the EXCLUSIVE lock and meets a reader: it takes
\* the PENDING lock and waits, up to the busy timeout
register_commit_wait(r) ==
  /\ pc[r] = "commit"
  /\ Readers # {}
  /\ pc' = [pc EXCEPT ![r] = "commit-wait"]
  /\ UNCHANGED <<apiKey, users, seq, writer, req, resp, conn, pwhash, tx, call,
                 reply, opened, ledger>>

\* lines 74 and 82-84: a reader is still there when the busy timeout ends:
\* db.commit() raises OperationalError (database is locked), which the
\* handler answers with 500; the transaction stays open
register_commit_locked(r) ==
  /\ pc[r] = "commit-wait"
  /\ Readers # {}
  /\ Respond(r, Json(500, [error |-> "Internal server error during registration."]))
  /\ UNCHANGED <<apiKey, users, seq, writer, req, conn, pwhash, tx, call, reply,
                 opened, ledger>>

\* lines 74-79: db.commit(), at once or after the readers have left, and the
\* 201 answer with cursor.lastrowid
register_commit(r) ==
  /\ pc[r] \in {"commit", "commit-wait"}
  /\ Readers = {}
  /\ users' = Append(users, tx[r])
  /\ seq' = tx[r].user_id
  /\ writer' = writer \ {r}
  /\ tx' = [tx EXCEPT ![r] = NoRow]
  /\ Respond(r, Json(201, [success |-> TRUE, message |-> "Registration successful.",
                           userId |-> tx[r].user_id]))
  /\ ledger' = Append(ledger, [userId |-> tx[r].user_id,
                               firstName |-> req[r].firstName,
                               lastName |-> req[r].lastName,
                               email |-> req[r].email,
                               password |-> req[r].password,
                               by |-> r])
  /\ UNCHANGED <<apiKey, req, conn, pwhash, call, reply, opened>>

\* ---------------------------------------------------------- POST /auth/login
\* lines 98-108: the answer for the fetched row (NoRow: no such email).
\* `user and check_password_hash(...)`: the password is checked only when
\* there is a row, and a password that is no text has no .encode
login_response(user, password) ==
  IF user = NoRow
    THEN Json(401, [error |-> "Invalid email or password."])
    ELSE IF ~IsText(password)
      THEN Unhandled("AttributeError")
      ELSE IF check_password_hash(user.password_hash, password)
        THEN Json(200, [success |-> TRUE,
                        userId |-> user.user_id,
                        firstName |-> user.first_name,
                        lastName |-> user.last_name,
                        email |-> user.email])
        ELSE Json(401, [error |-> "Invalid email or password."])

\* lines 88-95: read the body, check the two fields, open the connection
login_validate(r, body) ==
  /\ Arrives(r)
  /\ req' = [req EXCEPT ![r] = body]
  /\ IF ~body.object
       THEN /\ Respond(r, Unhandled("AttributeError"))
            /\ UNCHANGED <<conn, opened>>
       ELSE IF ~(Truthy(body.email) /\ Truthy(body.password))
         THEN /\ Respond(r, Json(400, [error |-> "Missing email or password."]))
              /\ UNCHANGED <<conn, opened>>
         ELSE /\ get_db(r)
              /\ pc' = [pc EXCEPT ![r] = "select"]
              /\ UNCHANGED resp
  /\ UNCHANGED <<apiKey, users, seq, writer, pwhash, tx, call, reply, ledger>>

\* line 96, db.execute(SELECT ...): the statement takes the SHARED lock, for
\* which it waits while a connection holds the PENDING lock, and is stepped
\* once.  With no row for the email it is done, the lock is given back and
\* fetchone() has None to return; with a row the statement stays open, and
\* with it the lock, until fetchone()
login_select(r) ==
  /\ pc[r] = "select"
  /\ Pending = {}
  /\ IF ~CanBind(req[r].email)
       THEN Respond(r, Unhandled("ProgrammingError"))
       ELSE IF fetchone(req[r].email) = NoRow
         THEN Respond(r, login_response(NoRow, req[r].password))
         ELSE /\ pc' = [pc EXCEPT ![r] = "fetch"]
              /\ UNCHANGED resp
  /\ UNCHANGED <<apiKey, users, seq, writer, req, conn, pwhash, tx, call, reply,
                 opened, ledger>>

\* line 96: the PENDING lock is still held when the busy timeout ends:
\* db.execute raises OperationalError (database is locked); login has no
\* try around it
login_select_locked(r) ==
  /\ pc[r] = "select"
  /\ Pending # {}
  /\ Respond(r, Unhandled("OperationalError"))
  /\ UNCHANGED <<apiKey, users, seq, writer, req, conn, pwhash, tx, call, reply,
                 opened, ledger>>

\* lines 96-108: .fetchone() returns the row, ends the statement and gives
\* the SHARED lock back; the answer for the row
login_fetchone(r) ==
  /\ pc[r] = "fetch"
  /\ Respond(r, login_response(fetchone(req[r].email), req[r].password))
  /\ UNCHANGED <<apiKey, users, seq, writer, req, conn, pwhash, tx, call, reply,
                 opened, ledger>>

\* -------------------------------------------------------- POST /generate-fix
\* lines 115-153: configuration check, body, issue_id, prompt, then the
\* payload is posted; the handler waits for the upstream answer
generate_fix(r, body) ==
  /\ Arrives(r)
  /\ req' = [req EXCEPT ![r] = body]
  /\ IF ~apiKey
       THEN /\ Respond(r, Json(500, [error |-> "Gemini API key is not configured on the server."]))
            /\ UNCHANGED call
       ELSE IF ~body.object
         THEN /\ Respond(r, Unhandled("AttributeError"))
              /\ UNCHANGED call
         ELSE IF ~Truthy(body.issueId)
           THEN /\ Respond(r, Json(400, [error |-> "issueId is required."]))
                /\ UNCHANGED call
           ELSE IF body.issueId \notin SupportedIssueIds
             THEN /\ Respond(r, Json(400, [error |-> "Unsupported issueId for AI content generation."]))
                  /\ UNCHANGED call
             ELSE IF ~body.context.mapping
               THEN /\ Respond(r, Unhandled("AttributeError"))
                    /\ UNCHANGED call
               ELSE /\ call' = [call EXCEPT ![r] = build_prompt(body.issueId, body.context)]
                    /\ pc' = [pc EXCEPT ![r] = "upstream"]
                    /\ UNCHANGED resp
  /\ UNCHANGED <<apiKey, users, seq, writer, conn, pwhash, tx, reply, opened, ledger>>

\* str(e) of the RequestException: for an HTTPError the status line and the
\* url, for a JSONDecodeError the parser's message
exception_str(rep) ==
  CASE rep.kind = "http" ->
         [message |-> "HTTPError", status |-> rep.status, url |-> "GEMINI_API_URL"]
    [] rep.kind = "ok" ->
         [message |-> "Expecting value", status |-> 0, url |-> ""]
    [] OTHER ->
         [message |-> "ConnectionError", status |-> 0, url |-> "GEMINI_API_URL"]

\* lines 163-168: error_details, the upstream error body (parsed JSON, else
\* the raw text); the value is computed and not used
error_details(rep) ==
  IF rep.kind = "http"
    THEN IF rep.json THEN [body |-> "e.response.json()"] ELSE [body |-> "e.response.text"]
    ELSE [body |-> "An unknown error occurred."]

\* lines 153-172: the answer for what the upstream call came back with
generate_fix_result(rep) ==
  CASE rep.kind \in {"neterr", "http"} \/ (rep.kind = "ok" /\ rep.shape = "RequestException") ->
         Json(502, [error |-> "Failed to communicate with the Gemini API. Check API key or quota.",
                    details |-> exception_str(rep)])
    [] rep.kind = "ok" /\ rep.shape = "ValueError" ->
         Unhandled("ValueError")
    [] rep.kind = "ok" /\ rep.shape = "text" ->
         Json(200, [suggestion |-> suggestion_text(rep.text)])
    [] rep.kind = "ok" /\ rep.shape \in {"no-candidates", "empty-candidates"} ->
         Json(500, [error |-> "Invalid response format from the Gemini API."])
    [] rep.kind = "ok" /\ rep.shape \in {"null-candidates", "null-content"} ->
         Unhandled("TypeError")
    [] rep.kind = "ok" /\ rep.shape = "null-text" ->
         Unhandled("AttributeError")

generate_fix_response(r, rep) ==
  /\ pc[r] = "upstream"
  /\ reply' = [reply EXCEPT ![r] = rep]
  /\ Respond(r, generate_fix_result(rep))
  /\ UNCHANGED <<apiKey, users, seq, writer, req, conn, pwhash, tx, call, opened, ledger>>

\* ----------------------------------------------------------- POST /apply-fix
apply_fix(r, body) ==
  /\ Arrives(r)
  /\ req' = [req EXCEPT ![r] = body]
  /\ IF ~body.object
       THEN Respond(r, Unhandled("AttributeError"))
       ELSE IF ~Truthy(body.issueId) \/ ~Truthy(body.suggestion)
         THEN Respond(r, Json(400, [error |-> "issueId and suggestion are required."]))
         ELSE Respond(r, Json(200, [message |-> [applied |-> body.issueId]]))
  /\ UNCHANGED <<apiKey, users, seq, writer, conn, pwhash, tx, call, reply, opened, ledger>>

\* ---------------------------------------------------------------- teardown
\* a teardown that leaves the connection open
db_leak(connection) == connection
\* db.close()
db_close(connection) == FALSE

\* close_connection, run when the request's context ends, whatever the
\* handler returned or raised.  Closing a connection rolls its open
\* transaction back and gives up its locks.
close_connection(r) ==
  /\ pc[r] = "responded"
  /\ conn' = [conn EXCEPT ![r] = IF conn[r] THEN db_close(conn[r]) ELSE conn[r]]
  /\ tx' = [tx EXCEPT ![r] = NoRow]
  /\ writer' = writer \ {r}
  /\ pc' = [pc EXCEPT ![r] = "closed"]
  /\ req' = [req EXCEPT ![r] = NoReq]
  /\ resp' = [resp EXCEPT ![r] = NoResp]
  /\ call' = [call EXCEPT ![r] = NoCall]
  /\ reply' = [reply EXCEPT ![r] = NoReply]
  /\ UNCHANGED <<apiKey, users, seq, pwhash, opened, ledger>>

\* -------------------------------------------------------------------- next
\* the four routes, over a sample of request bodies and upstream answers
Next ==
  \E r \in Requests :
    \/ \E body \in RegisterSample : register_validate(r, body)
    \/ \E salt \in SaltSample : register_hash(r, salt)
    \/ register_insert(r)
    \/ register_insert_unbindable(r)
    \/ register_insert_locked(r)
    \/ register_commit_wait(r)
    \/ register_commit_locked(r)
    \/ register_commit(r)
    \/ \E body \in LoginSample : login_validate(r, body)
    \/ login_select(r)
    \/ login_select_locked(r)
    \/ login_fetchone(r)
    \/ \E body \in GenerateFixSample : generate_fix(r, body)
    \/ \E rep \in ReplySample : generate_fix_response(r, rep)
    \/ \E body \in ApplyFixSample : apply_fix(r, body)
    \/ close_connection(r)

Spec == Init /\ [][Next]_vars

\* the two authentication routes, over all their request bodies
NextAuth ==
  \E r \in Requests :
    \/ \E body \in RegisterBodies : register_validate(r, body)
    \/ \E salt \in SaltSample : register_hash(r, salt)
    \/ register_insert(r)
    \/ register_insert_unbindable(r)
    \/ register_insert_locked(r)
    \/ register_commit_wait(r)
    \/ register_commit_locked(r)
    \/ register_commit(r)
    \/ \E body \in LoginBodies : login_validate(r, body)
    \/ login_select(r)
    \/ login_select_locked(r)
    \/ login_fetchone(r)
    \/ close_connection(r)

\* neither route reads the API key
InitAuth == Init /\ apiKey
SpecAuth == InitAuth /\ [][NextAuth]_vars

\* the two fix routes, over all their request bodies and upstream answers
NextFix ==
  \E r \in FixRequests :
    \/ \E body \in GenerateFixBodies : generate_fix(r, body)
    \/ \E rep \in Replies : generate_fix_response(r, rep)
    \/ \E body \in ApplyFixBodies : apply_fix(r, body)
    \/ close_connection(r)

\* neither route reads the store
InitFix == Init /\ users = <<>>
SpecFix == InitFix /\ [][NextFix]_vars

\* ================================================================== claims
Answered(r, route) ==
  /\ pc[r] = "responded"
  /\ req[r].route = route
  /\ req[r].object
\* the four fields of a register body are texts
AllText(body) ==
  /\ IsText(body.firstName)
  /\ IsText(body.lastName)
  /\ IsText(body.email)
  /\ IsText(body.password)
\* a register request with all four fields, each a text, that has its answer
RegisterAnswered(r) ==
  /\ Answered(r, "register")
  /\ register_all(req[r])
  /\ AllText(req[r])
\* a login request with email and password, each a text, that has its answer
LoginAnswered(r) ==
  /\ Answered(r, "login")
  /\ Truthy(req[r].email) /\ IsText(req[r].email)
  /\ Truthy(req[r].password) /\ IsText(req[r].password)
\* the registrations of an email made by requests other than those of rs
RegisteredByOthers(email, rs) ==
  {i \in 1..Len(ledger) :
     text_affinity(ledger[i].email) = text_affinity(email) /\ ledger[i].by \notin rs}
InvalidCredentials == Json(401, [error |-> "Invalid email or password."])

\* C1: two register requests with all four fields and the same email, not
\* registered by anyone else, that are in flight together end in one 201 and
\* one 409 whatever the interleaving of their steps: never two 201, never two
\* 409, never a 500.
C1_RaceHasOneWinner ==
  \A r1, r2 \in Requests :
    (/\ r1 < r2
     /\ RegisterAnswered(r1)
     /\ RegisterAnswered(r2)
     /\ req[r1].email = req[r2].email
     /\ RegisteredByOthers(req[r1].email, {r1, r2}) = {})
    => /\ {resp[r1].status, resp[r2].status} = {201, 409}
       /\ resp[r1].raised = "none"
       /\ resp[r2].raised = "none"

\* the step with which request r, a register with all four fields, each a
\* text, gets the answer of its INSERT
InsertAnswerStep(r) ==
  /\ pc[r] = "insert"
  /\ AllText(req[r])
  /\ pc'[r] = "responded"

\* C2: table users never holds two rows with one email, and a register
\* request whose email is stored when its INSERT runs is answered 409 and
\* leaves exactly one row for that email.
C2_OneRowPerEmail ==
  [][/\ \A i, j \in 1..Len(users') : users'[i].email = users'[j].email => i = j
     /\ \A r \in Requests :
          (InsertAnswerStep(r) /\ EmailRows(req[r].email) # {})
          => /\ resp'[r] = Json(409, [error |-> "Email already registered."])
             /\ Cardinality({i \in 1..Len(users') : users'[i].email = req[r].email}) = 1
    ]_vars

\* C3: a login with email and password whose email is not stored, or is
\* stored with a hash the password does not match, is answered by one and the
\* same 401 response in both cases.
C3_SameAnswerForBothCauses ==
  \A r \in Requests :
    (/\ LoginAnswered(r)
     /\ \/ EmailRows(req[r].email) = {}
        \/ ~check_password_hash(fetchone(req[r].email).password_hash, req[r].password))
    => resp[r] = InvalidCredentials

\* the step with which request r, a login for an email and a password that
\* are texts, is answered
LoginStep(r) ==
  /\ pc[r] \in {"select", "fetch"}
  /\ IsText(req[r].email)
  /\ IsText(req[r].password)
  /\ pc'[r] = "responded"

\* C4: a login with the email and the password of an earlier registration,
\* one whose names are texts, is
\* answered 200 with the userId that registration was answered with and the
\* firstName, lastName and email it gave, and with nothing else: no login
\* answer has a password or a password hash in it.
C4_LoginReturnsRegisteredUser ==
  [][\A r \in Requests :
       LoginStep(r) =>
         /\ \A i \in 1..Len(ledger) :
              (/\ ledger[i].email = req'[r].email
               /\ ledger[i].password = req'[r].password
               /\ IsText(ledger[i].firstName)
               /\ IsText(ledger[i].lastName))
              => resp'[r] = Json(200, [success |-> TRUE,
                                       userId |-> ledger[i].userId,
                                       firstName |-> ledger[i].firstName,
                                       lastName |-> ledger[i].lastName,
                                       email |-> ledger[i].email])
         /\ DOMAIN resp'[r].body \subseteq
              {"success", "userId", "firstName", "lastName", "email", "error"}
    ]_vars

\* C5: every request ends in a success response or in a JSON response with
\* an error field and the status 400, 401, 409, 500 or 502; no exception
\* leaves a handler.
C5_NoUnhandledException ==
  \A r \in Requests :
    pc[r] = "responded" =>
      /\ resp[r].raised = "none"
      /\ \/ resp[r].status \in {200, 201}
         \/ resp[r].status \in {400, 401, 409, 500, 502} /\ "error" \in DOMAIN resp[r].body

\* a generate-fix request with an issueId that is absent (a body that is no
\* object has none), empty or not one of the four supported, once the handler
\* has answered or posted upstream
BadIssueId(r) ==
  /\ pc[r] \in {"upstream", "responded"}
  /\ req[r].route = "generate-fix"
  /\ IF req[r].object
       THEN req[r].issueId \notin {"no-h1", "title-length", "image-alt-text", "meta-description"}
       ELSE TRUE

\* C6: such a request is answered 400 and makes no upstream call, with or
\* without a configured API key.
C6_BadIssueIdIs400 ==
  \A r \in Requests :
    BadIssueId(r) =>
      /\ pc[r] = "responded"
      /\ resp[r].status = 400
      /\ call[r] = NoCall

\* a generate-fix request whose upstream call has come back
UpstreamAnswered(r) ==
  /\ pc[r] = "responded"
  /\ req[r].route = "generate-fix"
  /\ reply[r] # NoReply

HasQuote(s) == \E i \in 1..Len(s) : s[i] = QUOTE
Padded(s) == s # <<>> /\ (s[1] = SPACE \/ s[Len(s)] = SPACE)

\* C7: the suggestion returned for a candidate text has no double quote and
\* no leading or trailing whitespace: it is the text with its double quotes
\* removed and then trimmed.
C7_SuggestionIsCleanAndTrimmed ==
  \A r \in Requests :
    (UpstreamAnswered(r) /\ reply[r].kind = "ok" /\ reply[r].shape = "text")
    => /\ resp[r].status = 200
       /\ ~HasQuote(resp[r].body.suggestion)
       /\ ~Padded(resp[r].body.suggestion)
       /\ resp[r].body.suggestion = strip(replace_quotes(reply[r].text))

\* C8: a non-success upstream status is answered 502 with an error field and
\* a details field that carries the upstream status and the upstream error
\* body (parsed JSON, else the raw text).
C8_DetailsCarryUpstreamError ==
  \A r \in Requests :
    (UpstreamAnswered(r) /\ reply[r].kind = "http")
    => /\ resp[r].status = 502
       /\ "error" \in DOMAIN resp[r].body
       /\ "details" \in DOMAIN resp[r].body
       /\ "status" \in DOMAIN resp[r].body.details
       /\ resp[r].body.details.status = reply[r].status
       /\ "body" \in DOMAIN resp[r].body.details
       /\ resp[r].body.details.body = error_details(reply[r]).body

\* another request that is past validation with the same email
Rival(r) ==
  \E q \in Requests \ {r} :
    /\ pc[q] \in {"hash", "insert", "commit", "commit-wait", "responded"}
    /\ req[q].route = "register"
    /\ req[q].object
    /\ text_affinity(req[q].email) = text_affinity(req[r].email)

\* C9: a register request with all four fields whose email nobody else has
\* registered or is registering is answered 201 with a positive userId, that
\* of its committed row; the userIds of the 201 answers increase strictly in
\* commit order.
C9_FreshRegisterGetsNewId ==
  /\ \A r \in Requests :
       (RegisterAnswered(r) /\ RegisteredByOthers(req[r].email, {r}) = {} /\ ~Rival(r))
       => /\ resp[r].status = 201
          /\ resp[r].body.userId > 0
          /\ \E i \in 1..Len(users) :
               /\ users[i].user_id = resp[r].body.userId
               /\ users[i].email = req[r].email
  /\ \A i, j \in 1..Len(ledger) : i < j => ledger[i].userId < ledger[j].userId
  /\ \A i \in 1..Len(ledger) : ledger[i].userId = users[i].user_id

\* C10: a request that has ended has no open connection and holds no lock,
\* whatever it was answered, and a request waiting for the upstream call has
\* no open connection.
C10_ConnectionIsRequestScoped ==
  \A r \in Requests :
    /\ pc[r] \in {"new", "closed"} => ~conn[r] /\ r \notin writer
    /\ pc[r] = "upstream" => ~conn[r]

\* a request that opened a connection has ended and its connection is closed,
\* while another request waits for the upstream call with no connection
C10_Witness ==
  \E r1, r2 \in Requests :
    /\ pc[r1] = "closed"
    /\ opened[r1]
    /\ ~conn[r1]
    /\ pc[r2] = "upstream"
    /\ ~conn[r2]

====
